---- MODULE Spec2Model ----
(***************************************************************************)
(* Model of serve_simple_llm.py: a translation chain                       *)
(*     chain = prompt_template | model | parser                            *)
(* served over HTTP by add_routes(app, chain, path="").                    *)
(*                                                                         *)
(* Strings are sequences of tokens.  The tokens "{" and "}" are the        *)
(* delimiters of a substitution slot of a prompt template, so that a       *)
(* caller-supplied value may itself look like a slot.                      *)
(***************************************************************************)
EXTENDS Integers, Sequences, FiniteSets, TLC

\* ------------------------------------------------------------------ bounds
MaxReq == 2          \* HTTP requests on /invoke and /stream in one run
MaxDescribe == 2     \* calls of the schema endpoints in one run
MaxBatch == 2        \* largest number of inputs of one /batch request
MaxChunk == 2        \* largest number of tokens the remote sends in one chunk

Req == 1..MaxReq

\* --------------------------------------------------------- program values
\* line 8
system_template ==
    << "You are an assistant that translates text. Translate the user text into ",
       "{", "language", "}", "." >>

\* lines 9-11: ChatPromptTemplate.from_messages([("system", ...), ("user", "{text}")])
PromptTemplateInit ==
    << [role |-> "system", template |-> system_template],
       [role |-> "user",   template |-> << "{", "text", "}" >>] >>

\* line 13
ModelInit ==
    [endpoint |-> "databricks-meta-llama-3-3-70b-instruct", temperature |-> 0]

\* line 27: prompt_template | model | parser
ChainInit == << "prompt_template", "model", "parser" >>

\* ------------------------------------------------------- request contents
\* A JSON value of a field of the request's "input" object.
Str(s) == [t |-> "str", v |-> s]
Num    == [t |-> "num", v |-> << "7" >>]
Missing == [t |-> "missing", v |-> << >>]

Languages == { << "French" >>, << "{", "text", "}" >> }
Texts     == { << "Hello" >>, << "{", "language", "}" >> }

LanguageFields == { Str(s) : s \in Languages } \cup { Num, Missing }
TextFields     == { Str(s) : s \in Texts } \cup { Num, Missing }

Bodies == [language : LanguageFields, text : TextFields]

NoBody == [language |-> Missing, text |-> Missing]

\* ------------------------------------------------------------- the stages
\* str.format over a template: literal tokens are copied, a slot
\* "{" name "}" is replaced by the value bound to name; the substituted
\* value is not scanned again.
RECURSIVE FormatOnce(_, _)
FormatOnce(tpl, vars) ==
    IF tpl = << >> THEN << >>
    ELSE IF Len(tpl) >= 3 /\ tpl[1] = "{" /\ tpl[3] = "}"
         THEN vars[tpl[2]] \o FormatOnce(SubSeq(tpl, 4, Len(tpl)), vars)
         ELSE << tpl[1] >> \o FormatOnce(Tail(tpl), vars)

FormatRescan(tpl, vars) == FormatOnce(FormatOnce(tpl, vars), vars)

RECURSIVE Format(_, _)
Format(tpl, vars) ==
    IF tpl = << >> THEN << >>
    ELSE IF Len(tpl) >= 3 /\ tpl[1] = "{" /\ tpl[3] = "}"
         THEN vars[tpl[2]] \o Format(SubSeq(tpl, 4, Len(tpl)), vars)
         ELSE << tpl[1] >> \o Format(Tail(tpl), vars)

\* The variables a template declares: the names of its slots.
RECURSIVE SlotNames(_)
SlotNames(tpl) ==
    IF tpl = << >> THEN {}
    ELSE IF Len(tpl) >= 3 /\ tpl[1] = "{" /\ tpl[3] = "}"
         THEN { tpl[2] } \cup SlotNames(SubSeq(tpl, 4, Len(tpl)))
         ELSE SlotNames(Tail(tpl))

InputVariables(pt) == UNION { SlotNames(pt[i].template) : i \in 1..Len(pt) }

\* ChatPromptTemplate.invoke: one message per (role, template) pair, in order.
FormatMessages(pt, body) ==
    LET vars == [n \in InputVariables(pt) |-> body[n].v]
    IN  [i \in 1..Len(pt) |->
            [role |-> pt[i].role, content |-> Format(pt[i].template, vars)]]

\* The remote completion service at temperature 0.0: the completion is a
\* function of the messages it is sent.  It is two tokens long: the first
\* token of the user message and the token of the system message that
\* follows its fixed first token.
Completion(msgs) ==
    << Head(msgs[2].content), msgs[1].content[2] >>

ModelResponse(content) ==
    [content |-> content, finish_reason |-> "stop"]

\* StrOutputParser: the text of the message, the metadata dropped.
ParseStr(resp) == resp.content

\* The input and output shapes of the chain: every prompt variable is a
\* required string, the parser's output is a string.
Descriptor(pt) ==
    [input |-> [n \in InputVariables(pt) |-> "string"], output |-> "string"]

\* Request validation against the declared input shape.
BadFields(pt, body) ==
    { n \in DOMAIN Descriptor(pt).input : body[n].t # "str" }

IsValidInputLax(pt, body) ==
    \A n \in DOMAIN Descriptor(pt).input : body[n].t # "missing"

IsValidInput(pt, body) == BadFields(pt, body) = {}


\* ------------------------------------------------------------------ state
VARIABLES
    prompt_template,   \* module-level object, lines 9-11
    model,             \* module-level object, line 13
    chain,             \* module-level object, line 27
    serving,           \* the listening process is up (line 44)
    req,               \* the /invoke and /stream requests
    described,         \* what the schema endpoints have returned so far
    batch              \* the /batch request

vars == << prompt_template, model, chain, serving, req, described, batch >>

IdleReq ==
    [st |-> "idle", kind |-> "none", body |-> NoBody,
     msgs |-> << >>, resp |-> ModelResponse(<< >>), pos |-> 0,
     out |-> << >>, events |-> << >>,
     status |-> 0, rbody |-> [none |-> TRUE],
     trace |-> << >>, calls |-> 0,
     raised |-> "none", err |-> "none", afterFail |-> FALSE]

IdleBatch ==
    [st |-> "idle", inputs |-> << >>, msgs |-> << >>, pending |-> {},
     resps |-> << >>, order |-> << >>, out |-> << >>,
     status |-> 0, rbody |-> [none |-> TRUE],
     trace |-> << >>, calls |-> << >>, raised |-> "none", err |-> "none"]

Init ==
    /\ prompt_template = PromptTemplateInit
    /\ model = ModelInit
    /\ chain = ChainInit
    /\ serving = TRUE
    /\ req = [r \in Req |-> IdleReq]
    /\ described = << >>
    /\ batch = IdleBatch

\* The stage of the chain that runs after the stages in trace.
StageAfter(trace) ==
    IF Len(trace) < Len(chain) THEN chain[Len(trace) + 1] ELSE "end"

\* Failures of the remote call.
RemoteErrors == { "RemoteServiceError", "TimeoutError" }

\* RunnableSequence re-raises the exception of the failing step.
PropagateWrapped(kind) == "ChainError"

Propagate(kind) == kind

\* No exception handler is registered on app: an exception that leaves a
\* route becomes the framework's plain 500 response.
ServerErrorBody == [text |-> << "Internal Server Error" >>]

\* The framework's answer to a request body that fails validation.
ValidationErrorBody(bad) == [detail |-> bad]

\* An /invoke request has been answered 500.
SomeFailed == \E q \in Req : req[q].status = 500

\* ------------------------------------------------ /invoke and /stream
\* POST /invoke or POST /stream arrives; the body is decoded and validated
\* against the chain's input schema before the chain is run.
Submit(r, k, b) ==
    /\ serving
    /\ req[r].st = "idle"
    /\ IF IsValidInput(prompt_template, b)
       THEN req' = [req EXCEPT ![r].st = "accepted", ![r].kind = k,
                               ![r].body = b,
                               ![r].status = IF k = "stream" THEN 200 ELSE 0,
                               ![r].afterFail = (k = "invoke" /\ SomeFailed)]
       ELSE IF k = "invoke"
       THEN req' = [req EXCEPT ![r].st = "done", ![r].kind = k,
                               ![r].body = b, ![r].status = 422,
                               ![r].rbody =
                                   ValidationErrorBody(BadFields(prompt_template, b)),
                               ![r].afterFail = SomeFailed]
       ELSE req' = [req EXCEPT ![r].st = "done", ![r].kind = k,
                               ![r].body = b, ![r].status = 200,
                               ![r].events = << [event |-> "error",
                                                 data |-> << "422" >>] >>]
    /\ UNCHANGED << prompt_template, model, chain, serving, described, batch >>

\* Stage 1: the prompt template renders the messages.
RenderLeaky(r) ==
    /\ req[r].st = "accepted"
    /\ StageAfter(req[r].trace) = "prompt_template"
    /\ req' = [req EXCEPT ![r].msgs = FormatMessages(prompt_template, req[r].body),
                          ![r].trace = Append(@, "prompt_template"),
                          ![r].st = "rendered"]
    /\ prompt_template' =
           [i \in 1..Len(prompt_template) |->
               [role |-> prompt_template[i].role,
                template |-> IF i = 1
                             THEN FormatMessages(prompt_template, req[r].body)[1].content
                             ELSE prompt_template[i].template]]
    /\ UNCHANGED << model, chain, serving, described, batch >>

Render(r) ==
    /\ req[r].st = "accepted"
    /\ StageAfter(req[r].trace) = "prompt_template"
    /\ req' = [req EXCEPT ![r].msgs = FormatMessages(prompt_template, req[r].body),
                          ![r].trace = Append(@, "prompt_template"),
                          ![r].st = "rendered"]
    /\ UNCHANGED << prompt_template, model, chain, serving, described, batch >>

\* Stage 2: the messages are sent to the remote endpoint.
Call(r) ==
    /\ req[r].st = "rendered"
    /\ StageAfter(req[r].trace) = "model"
    /\ req' = [req EXCEPT ![r].calls = @ + 1,
                          ![r].trace = Append(@, "model"),
                          ![r].st = "calling"]
    /\ UNCHANGED << prompt_template, model, chain, serving, described, batch >>

\* The remote endpoint answers an /invoke call with the whole completion.
Reply(r) ==
    /\ req[r].st = "calling"
    /\ req[r].kind = "invoke"
    /\ req' = [req EXCEPT ![r].resp = ModelResponse(Completion(req[r].msgs)),
                          ![r].st = "replied"]
    /\ UNCHANGED << prompt_template, model, chain, serving, described, batch >>

\* Stage 3 and the HTTP response of /invoke.
Parse(r) ==
    /\ req[r].st = "replied"
    /\ StageAfter(req[r].trace) = "parser"
    /\ LET o == ParseStr(req[r].resp)
       IN  req' = [req EXCEPT ![r].out = o,
                              ![r].trace = Append(@, "parser"),
                              ![r].status = 200,
                              ![r].rbody = [output |-> o],
                              ![r].st = "done"]
    /\ UNCHANGED << prompt_template, model, chain, serving, described, batch >>

\* The remote call of an /invoke request fails: the exception leaves the
\* chain and the route, the framework answers 500.
RemoteFailCrash(r, e) ==
    /\ req[r].st = "calling"
    /\ req[r].kind = "invoke"
    /\ req' = [req EXCEPT ![r].raised = e,
                          ![r].err = Propagate(e),
                          ![r].st = "done"]
    /\ serving' = FALSE
    /\ UNCHANGED << prompt_template, model, chain, described, batch >>

RemoteFail(r, e) ==
    /\ req[r].st = "calling"
    /\ req[r].kind = "invoke"
    /\ req' = [req EXCEPT ![r].raised = e,
                          ![r].err = Propagate(e),
                          ![r].status = 500,
                          ![r].rbody = ServerErrorBody,
                          ![r].st = "done"]
    /\ UNCHANGED << prompt_template, model, chain, serving, described, batch >>

\* /stream: the remote endpoint delivers the next n tokens of the
\* completion as one chunk; the parser turns the chunk into a fragment,
\* which is sent as a data event.
ChunkPrepend(r, n) ==
    /\ req[r].st = "calling"
    /\ req[r].kind = "stream"
    /\ LET full == Completion(req[r].msgs)
           p == req[r].pos
       IN  /\ p + n <= Len(full)
           /\ LET frag == ParseStr(ModelResponse(SubSeq(full, p + 1, p + n)))
              IN  req' = [req EXCEPT ![r].pos = p + n,
                                     ![r].events =
                                         << [event |-> "data", data |-> frag] >> \o @]
    /\ UNCHANGED << prompt_template, model, chain, serving, described, batch >>

Chunk(r, n) ==
    /\ req[r].st = "calling"
    /\ req[r].kind = "stream"
    /\ LET full == Completion(req[r].msgs)
           p == req[r].pos
       IN  /\ p + n <= Len(full)
           /\ LET frag == ParseStr(ModelResponse(SubSeq(full, p + 1, p + n)))
              IN  req' = [req EXCEPT ![r].pos = p + n,
                                     ![r].events =
                                         Append(@, [event |-> "data", data |-> frag])]
    /\ UNCHANGED << prompt_template, model, chain, serving, described, batch >>

\* /stream: the chunk sequence of the model is exhausted.
StreamEnd(r) ==
    /\ req[r].st = "calling"
    /\ req[r].kind = "stream"
    /\ req[r].pos = Len(Completion(req[r].msgs))
    /\ req' = [req EXCEPT ![r].events = Append(@, [event |-> "end", data |-> << >>]),
                          ![r].st = "done"]
    /\ UNCHANGED << prompt_template, model, chain, serving, described, batch >>

\* /stream: the remote call fails before or between chunks.
StreamFailSilent(r, e) ==
    /\ req[r].st = "calling"
    /\ req[r].kind = "stream"
    /\ req' = [req EXCEPT ![r].raised = e,
                          ![r].err = Propagate(e),
                          ![r].st = "done"]
    /\ UNCHANGED << prompt_template, model, chain, serving, described, batch >>

StreamFail(r, e) ==
    /\ req[r].st = "calling"
    /\ req[r].kind = "stream"
    /\ req' = [req EXCEPT ![r].raised = e,
                          ![r].err = Propagate(e),
                          ![r].events =
                              Append(@, [event |-> "error",
                                         data |-> << "500", "Internal Server Error" >>]),
                          ![r].st = "done"]
    /\ UNCHANGED << prompt_template, model, chain, serving, described, batch >>

\* ------------------------------------------------------ schema routes
\* GET /input_schema, /output_schema: the shapes of the chain.
DescribeDrifting ==
    /\ serving
    /\ Len(described) < MaxDescribe
    /\ described' = Append(described,
                           [input |-> Descriptor(prompt_template).input,
                            output |-> IF described = << >> THEN "string" ELSE "any"])
    /\ UNCHANGED << prompt_template, model, chain, serving, req, batch >>

Describe ==
    /\ serving
    /\ Len(described) < MaxDescribe
    /\ described' = Append(described, Descriptor(prompt_template))
    /\ UNCHANGED << prompt_template, model, chain, serving, req, batch >>

\* ------------------------------------------------------------- /batch
\* POST /batch arrives: every input is validated against the input schema
\* before the chain is run.
BatchSubmit(ins) ==
    /\ serving
    /\ batch.st = "idle"
    /\ LET bad == UNION { BadFields(prompt_template, ins[k]) : k \in 1..Len(ins) }
       IN  IF bad = {}
           THEN batch' = [batch EXCEPT !.st = "accepted", !.inputs = ins]
           ELSE batch' = [batch EXCEPT !.st = "done", !.inputs = ins,
                                       !.status = 422,
                                       !.rbody = ValidationErrorBody(bad)]
    /\ UNCHANGED << prompt_template, model, chain, serving, req, described >>

\* A batch of no inputs returns no outputs and runs no stage.
BatchEmpty ==
    /\ batch.st = "accepted"
    /\ batch.inputs = << >>
    /\ batch' = [batch EXCEPT !.st = "done", !.status = 200,
                              !.rbody = [output |-> << >>]]
    /\ UNCHANGED << prompt_template, model, chain, serving, req, described >>

\* Stage 1 over every input of the batch.
BatchRender ==
    /\ batch.st = "accepted"
    /\ batch.inputs # << >>
    /\ StageAfter(batch.trace) = "prompt_template"
    /\ batch' = [batch EXCEPT
                    !.msgs = [k \in 1..Len(batch.inputs) |->
                                 FormatMessages(prompt_template, batch.inputs[k])],
                    !.trace = Append(@, "prompt_template"),
                    !.st = "rendered"]
    /\ UNCHANGED << prompt_template, model, chain, serving, req, described >>

\* Stage 2: one remote call per input, all in flight together.
BatchCall ==
    /\ batch.st = "rendered"
    /\ StageAfter(batch.trace) = "model"
    /\ batch' = [batch EXCEPT
                    !.pending = 1..Len(batch.inputs),
                    !.calls = [k \in 1..Len(batch.inputs) |-> 1],
                    !.resps = [k \in 1..Len(batch.inputs) |-> ModelResponse(<< >>)],
                    !.trace = Append(@, "model"),
                    !.st = "calling"]
    /\ UNCHANGED << prompt_template, model, chain, serving, req, described >>

\* The remote call of input k completes; its response is kept at index k.
BatchReplyArrival(k) ==
    /\ batch.st = "calling"
    /\ k \in batch.pending
    /\ batch' = [batch EXCEPT
                    !.resps[Len(batch.order) + 1] =
                        ModelResponse(Completion(batch.msgs[k])),
                    !.pending = @ \ { k },
                    !.order = Append(@, k)]
    /\ UNCHANGED << prompt_template, model, chain, serving, req, described >>

BatchReply(k) ==
    /\ batch.st = "calling"
    /\ k \in batch.pending
    /\ batch' = [batch EXCEPT
                    !.resps[k] = ModelResponse(Completion(batch.msgs[k])),
                    !.pending = @ \ { k },
                    !.order = Append(@, k)]
    /\ UNCHANGED << prompt_template, model, chain, serving, req, described >>

\* The remote call of input k fails: the batch as a whole raises.
BatchFail(k, e) ==
    /\ batch.st = "calling"
    /\ k \in batch.pending
    /\ batch' = [batch EXCEPT !.raised = e, !.err = Propagate(e),
                              !.status = 500, !.rbody = ServerErrorBody,
                              !.st = "done"]
    /\ UNCHANGED << prompt_template, model, chain, serving, req, described >>

\* Stage 3 over every response, and the HTTP response of /batch.
BatchParse ==
    /\ batch.st = "calling"
    /\ batch.pending = {}
    /\ StageAfter(batch.trace) = "parser"
    /\ LET o == [k \in 1..Len(batch.inputs) |-> ParseStr(batch.resps[k])]
       IN  batch' = [batch EXCEPT !.out = o, !.status = 200,
                                  !.rbody = [output |-> o],
                                  !.trace = Append(@, "parser"),
                                  !.st = "done"]
    /\ UNCHANGED << prompt_template, model, chain, serving, req, described >>

\* --------------------------------------------------------- specifications
ValidBodies == { b \in Bodies : IsValidInput(PromptTemplateInit, b) }

\* The bodies sent to /stream and /batch: every valid one and an empty one.
SomeBodies == ValidBodies \cup { NoBody }

BatchInputs == UNION { [1..n -> SomeBodies] : n \in 0..MaxBatch }

\* The server with its /invoke route and its schema routes.
Next ==
    \/ \E r \in Req, b \in Bodies : Submit(r, "invoke", b)
    \/ \E r \in Req : Render(r)
    \/ \E r \in Req : Call(r)
    \/ \E r \in Req : Reply(r)
    \/ \E r \in Req : Parse(r)
    \/ \E r \in Req, e \in RemoteErrors : RemoteFail(r, e)
    \/ Describe

Spec == Init /\ [][Next]_vars

\* The server with its /invoke and /stream routes.
StreamNext ==
    \/ \E r \in Req, k \in { "invoke", "stream" }, b \in SomeBodies : Submit(r, k, b)
    \/ \E r \in Req : Render(r)
    \/ \E r \in Req : Call(r)
    \/ \E r \in Req : Reply(r)
    \/ \E r \in Req : Parse(r)
    \/ \E r \in Req, n \in 1..MaxChunk : Chunk(r, n)
    \/ \E r \in Req : StreamEnd(r)
    \/ \E r \in Req, e \in RemoteErrors : StreamFail(r, e)

StreamSpec == Init /\ [][StreamNext]_vars

\* The /stream route alone, every stream session making progress: the event
\* loop runs a session whose next step is ready, and the remote endpoint
\* either delivers, ends or fails.
SessionStep(r) ==
    \/ Render(r)
    \/ Call(r)
    \/ \E n \in 1..MaxChunk : Chunk(r, n)
    \/ StreamEnd(r)
    \/ \E e \in RemoteErrors : StreamFail(r, e)

SessionNext ==
    \/ \E r \in Req, b \in SomeBodies : Submit(r, "stream", b)
    \/ \E r \in Req : SessionStep(r)

FairStreamSpec ==
    Init /\ [][SessionNext]_vars /\ \A r \in Req : WF_vars(SessionStep(r))

\* The server with its /batch route.
BatchNext ==
    \/ \E ins \in BatchInputs : BatchSubmit(ins)
    \/ BatchEmpty
    \/ BatchRender
    \/ BatchCall
    \/ \E k \in 1..MaxBatch : BatchReply(k)
    \/ \E k \in 1..MaxBatch, e \in RemoteErrors : BatchFail(k, e)
    \/ BatchParse

BatchSpec == Init /\ [][BatchNext]_vars

\* ----------------------------------------------------------------- claims
\* What /invoke returns for a body when it is the only request.
InvokeAlone(body) ==
    ParseStr(ModelResponse(Completion(FormatMessages(PromptTemplateInit, body))))

\* sub occurs in s as a contiguous run of tokens.
Contains(s, sub) ==
    \E i \in 1..(Len(s) - Len(sub) + 1) : SubSeq(s, i, i + Len(sub) - 1) = sub

RECURSIVE ConcatData(_)
\* The fragments of the data events of an event sequence, concatenated in order.
ConcatData(evs) ==
    IF evs = << >> THEN << >>
    ELSE (IF Head(evs).event = "data" THEN Head(evs).data ELSE << >>)
         \o ConcatData(Tail(evs))

Terminal(ev) == ev.event \in { "end", "error" }

\* C1: a /batch request that returns has one output per input, output k is
\* what /invoke returns for input k alone, whatever the order in which the
\* remote calls completed.
C1_BatchOrdered ==
    (batch.st = "done" /\ batch.status = 200) =>
        /\ Len(batch.out) = Len(batch.inputs)
        /\ batch.rbody = [output |-> batch.out]
        /\ \A k \in 1..Len(batch.inputs) : batch.out[k] = InvokeAlone(batch.inputs[k])

\* A batch of two different inputs has returned, the second remote call
\* having completed first.
C1_Witness ==
    /\ batch.st = "done" /\ batch.status = 200
    /\ Len(batch.inputs) >= 2
    /\ batch.order[1] = 2
    /\ InvokeAlone(batch.inputs[1]) # InvokeAlone(batch.inputs[2])

\* A batch of no inputs has returned no outputs.
C1_WitnessEmpty ==
    batch.st = "done" /\ batch.status = 200 /\ batch.inputs = << >>

\* C2: the fragments of a /stream session that ended normally, concatenated
\* in arrival order, are the output of an /invoke request on the same input.
C2_StreamConcat ==
    \A r1, r2 \in Req :
        ( /\ req[r1].kind = "invoke" /\ req[r1].st = "done" /\ req[r1].status = 200
          /\ req[r2].kind = "stream" /\ req[r2].st = "done"
          /\ req[r2].raised = "none"
          /\ req[r2].events[Len(req[r2].events)].event = "end"
          /\ req[r1].body = req[r2].body )
        => ConcatData(req[r2].events) = req[r1].out

\* An /invoke and a /stream on the same input have both finished, the
\* stream in two fragments.
C2_Witness ==
    \E r1, r2 \in Req :
        /\ req[r1].kind = "invoke" /\ req[r1].st = "done" /\ req[r1].status = 200
        /\ req[r2].kind = "stream" /\ req[r2].st = "done"
        /\ req[r1].body = req[r2].body
        /\ Len(req[r2].events) = 3
        /\ req[r2].events[3].event = "end"

\* C3: an /invoke request whose body lacks text or language, or holds a
\* non-string there, is answered with a 4xx status, and no stage ran for
\* it: no messages rendered, no remote call.
C3_InvalidRejected ==
    \A r \in Req :
        ( /\ req[r].kind = "invoke"
          /\ \/ req[r].body.language.t # "str"
             \/ req[r].body.text.t # "str" )
        => /\ req[r].st = "done"
           /\ req[r].status \in 400..499
           /\ req[r].trace = << >>
           /\ req[r].msgs = << >>
           /\ req[r].calls = 0

\* An /invoke request with a number for language and one without text have
\* been answered.
C3_Witness ==
    \E r1, r2 \in Req :
        /\ req[r1].kind = "invoke" /\ req[r1].body.language.t = "num"
        /\ req[r1].st = "done"
        /\ req[r2].kind = "invoke" /\ req[r2].body.text.t = "missing"
        /\ req[r2].body.language.t = "str"
        /\ req[r2].st = "done"

\* The response body names the error kind.
NamesKind(rbody, kind) ==
    /\ "text" \in DOMAIN rbody
    /\ \E i \in 1..Len(rbody.text) : rbody.text[i] = kind

C5_Isolated ==
    /\ prompt_template = PromptTemplateInit
    /\ model = ModelInit
    /\ chain = ChainInit
    /\ \A r \in Req :
        /\ req[r].trace # << >> =>
              /\ Contains(req[r].msgs[1].content, req[r].body.language.v)
              /\ req[r].msgs[2].content = req[r].body.text.v
        /\ (req[r].kind = "invoke" /\ req[r].status = 200) =>
              req[r].out = InvokeAlone(req[r].body)
        /\ (req[r].kind = "stream" /\ req[r].trace # << >>) =>
              ConcatData(req[r].events)
                  = SubSeq(InvokeAlone(req[r].body), 1, req[r].pos)

\* Two requests with the same text and different languages are in flight
\* together, both rendered and both waiting for the remote endpoint.
C5_Witness ==
    \E r1, r2 \in Req :
        /\ req[r1].st = "calling" /\ req[r2].st = "calling"
        /\ req[r1].body.text = req[r2].body.text
        /\ req[r1].body.language # req[r2].body.language

\* C6: rendering a valid input gives exactly two messages, a system message
\* that is the fixed sentence with the language put in and a user message
\* that is the text as given; the input is left as it was submitted.
C6_TwoMessages ==
    /\ [] (\A r \in Req :
            req[r].trace # << >> =>
              /\ Len(req[r].msgs) = 2
              /\ req[r].msgs[1] =
                    [role |-> "system",
                     content |->
                        << "You are an assistant that translates text. Translate the user text into " >>
                        \o req[r].body.language.v \o << "." >>]
              /\ req[r].msgs[2] =
                    [role |-> "user", content |-> req[r].body.text.v])
    /\ [][\A r \in Req : req[r].st # "idle" => req'[r].body = req[r].body]_vars

\* A request whose text and language both look like template slots has been
\* rendered.
C6_Witness ==
    \E r \in Req :
        /\ req[r].trace # << >>
        /\ req[r].body.text.v = << "{", "language", "}" >>
        /\ req[r].body.language.v = << "{", "text", "}" >>

\* C7: every call of the schema routes returns the same descriptor, and a
\* call leaves every request where it was: it runs no stage and makes no
\* remote call.
C7_DescribeIdempotent ==
    /\ [] (\A i, j \in 1..Len(described) : described[i] = described[j])
    /\ [] (\A i \in 1..Len(described) :
              described[i] = [input |-> [language |-> "string", text |-> "string"],
                              output |-> "string"])
    /\ [][described' # described => (req' = req /\ batch' = batch)]_vars

\* The schema was returned twice in a run in which a request made its
\* remote call and was answered.
C7_Witness ==
    /\ Len(described) >= 2
    /\ \E r \in Req : req[r].calls = 1 /\ req[r].st = "done"

\* C8: an /invoke request runs render, then the remote call, then the
\* parser, each stage on the output of the one before; once a stage has
\* failed no later stage runs and the error that leaves the chain is the
\* error the stage raised.
C8_StageOrder ==
    \A r \in Req :
        req[r].kind = "invoke" =>
          /\ \E n \in 0..Len(ChainInit) :
                req[r].trace = SubSeq(<< "prompt_template", "model", "parser" >>, 1, n)
          /\ req[r].st = "replied" =>
                req[r].resp = ModelResponse(Completion(req[r].msgs))
          /\ req[r].status = 200 =>
                /\ req[r].trace = << "prompt_template", "model", "parser" >>
                /\ req[r].resp = ModelResponse(Completion(req[r].msgs))
                /\ req[r].out = ParseStr(req[r].resp)
          /\ req[r].raised # "none" =>
                /\ req[r].trace = << "prompt_template", "model" >>
                /\ req[r].out = << >>
                /\ req[r].err = req[r].raised
                /\ req[r].err \in { "TemplateError", "RemoteServiceError",
                                    "TimeoutError", "ParseError" }

\* One request ran all three stages, another stopped at a remote call that
\* timed out.
C8_Witness ==
    \E r1, r2 \in Req :
        /\ req[r1].kind = "invoke" /\ req[r1].status = 200
        /\ req[r2].kind = "invoke" /\ req[r2].raised = "TimeoutError"

\* C10: a /stream response holds at most one terminal event, which is its
\* last event; it is finished exactly when it holds one; the end marker
\* comes exactly when the model's chunks are all delivered, an error event
\* when the session failed; and every response that has started finishes.
C10_StreamTerminates ==
    /\ [] (\A r \in Req :
            req[r].kind = "stream" =>
              LET evs == req[r].events
              IN  /\ \A i \in 1..Len(evs) : Terminal(evs[i]) => i = Len(evs)
                  /\ req[r].st = "done" <=>
                        (evs # << >> /\ Terminal(evs[Len(evs)]))
                  /\ (evs # << >> /\ evs[Len(evs)].event = "end") =>
                        /\ req[r].raised = "none"
                        /\ req[r].pos = Len(Completion(req[r].msgs))
                        /\ ConcatData(evs) = Completion(req[r].msgs)
                  /\ req[r].raised # "none" =>
                        (evs # << >> /\ evs[Len(evs)].event = "error"))
    /\ \A r \in Req : (req[r].kind = "stream") ~> (req[r].st = "done")

\* One stream ended with the end marker after a fragment, another with an
\* error event after a fragment.
C10_Witness ==
    \E r1, r2 \in Req :
        /\ req[r1].kind = "stream" /\ Len(req[r1].events) >= 2
        /\ req[r1].events[Len(req[r1].events)].event = "end"
        /\ req[r2].kind = "stream" /\ Len(req[r2].events) >= 2
        /\ req[r2].events[Len(req[r2].events)].event = "error"

====
